---- MODULE Spec2Model ----
(***************************************************************************)
(* Room/session concurrency manager of the chess server (src/app.py):      *)
(* the in-memory registry `games`, the per-room game dict, the clocks,     *)
(* the disconnect grace timers, the background ticker, the bot task and    *)
(* the persistence call save_game -> save_game_record (src/database.py).   *)
(*                                                                         *)
(* Abstractions.  Wall-clock time is an integer number of ticks.  The      *)
(* python-chess board is a ply counter (white to move on even plies) plus  *)
(* the terminal status the rules engine reports for the position; a        *)
(* client's (from, to) squares are classified by what python-chess would   *)
(* answer for them in the current position.  A socket id is used by one    *)
(* connection only and is never reused.  Handlers run in their own         *)
(* threads (async_mode="threading"); a handler is one step up to the       *)
(* database write inside save_game, and the completion of that write is a  *)
(* second step, so that handlers that do not take the room lock can run    *)
(* while another thread is inside save_game_record.                        *)
(***************************************************************************)
EXTENDS Integers, FiniteSets, Sequences, TLC

\* ----------------------------------------------------------------- bounds
MaxSids == 3          \* socket ids 1..MaxSids, handed out in order
PlaySids == 2         \* the socket ids handed out while a game is played
MaxNow == 2           \* the wall clock stops advancing at MaxNow ticks
MaxPly == 2           \* no move is submitted once MaxPly plies were played
MaxBotTasks == 1      \* bot_play tasks scheduled and not yet run, per room
MaxCalls == 2         \* save_game_record calls per game
TimeControl == 2      \* the timeControl a client asks for, in ticks
MaxQueue == 3         \* entries of matchmaking_queue
BotSids == 1          \* the socket ids handed out while the bot's turns are explored
BotPlies == 3         \* the plies played while the bot's turns are explored
BotPending == 2       \* the bot_play tasks pending while they are explored
RulesPlies == 3       \* the plies of the positions check_game_over is applied to

\* ------------------------------------------------------------- vocabulary
NoSid == 0
None == "None"
Sids == 1..MaxSids
Rooms == {"r1"}
\* the room ids the server makes up: "global-" / "bot-" / "friend-" followed by
\* secrets.token_hex(4), taken to be an id no registered room has
NewRooms == {"n1"}
\* the room ids generated while repeated rematches are explored
MoreRooms == {"n1", "n2"}
AllRooms == Rooms \cup NewRooms
PlayerNames == {"A", "B"}
BotName == "Bot"
Colors == {"white", "black"}
Senders == {"white", "black", "spectator"}

other(color) == IF color = "white" THEN "black" ELSE "white"

\* threads that can be inside save_game for a room, by the handler they run
Callers == {"move", "bot", "ticker", "timer", "resign", "draw"}
\* the handlers that call save_game inside `with g["lock"]`
LockHolders == {"move", "bot", "ticker", "timer"}

VARIABLES
    games,        \* the dict `games`: room id -> game dict
    sid_to_room,  \* socket id -> room id, or None
    nextSid,      \* the next socket id to be handed out
    live,         \* socket ids connected at the moment
    now,          \* time.time()
    timers,       \* threading.Timer threads started and neither fired nor cancelled
    botTasks,     \* room id -> bot_play background tasks scheduled and not yet run
    saving,       \* room id -> caller -> position inside save_game_record
    last,         \* the last handler that ran and how it ended
    matchmaking_queue,  \* the list `matchmaking_queue`
    found,        \* the last matchmaking_found events, as (room, white, black)
    creating      \* socket id -> the create request its thread works on, if any

vars == <<games, sid_to_room, nextSid, live, now, timers, botTasks, saving,
          last, matchmaking_queue, found, creating>>

\* ------------------------------------------------------------ rules engine
\* chess.Board(): the start position, white to move.
NewBoard == [ply |-> 0, status |-> "none"]

\* board.turn, as the colour to move
turn(board) == IF board.ply % 2 = 0 THEN "white" ELSE "black"

\* The kinds of (from, to) pairs a client can send, by what the rules engine
\* makes of them in the position: a legal quiet move, a legal move that mates,
\* a legal move that stalemates, a pawn reaching the last rank (legal only
\* with a promotion piece), and squares that form no legal move.
Squares == {"quiet", "mate", "stale", "promo", "bad"}
MoveInputs == [sq : Squares, promotion : BOOLEAN]
\* the moves submitted while the results and the clocks are explored
PlayMoves == {d \in MoveInputs : d.sq \in {"quiet", "mate", "bad"} /\ ~d.promotion}

\* board.is_game_over(): checkmate, stalemate, insufficient material (and the
\* 75-move / fivefold rules, which need more plies than the model plays);
\* threefold repetition and the fifty-move rule do not end the game there.
is_game_over(board) == board.status \in {"checkmate", "stalemate", "insufficient"}

\* board.legal_moves, as chess.Move values (squares, promotion piece or none)
legal_moves(board) ==
    IF board.status \in {"checkmate", "stalemate"} THEN {}
    ELSE {[sq |-> "quiet", promotion |-> FALSE],
          [sq |-> "mate", promotion |-> FALSE],
          [sq |-> "stale", promotion |-> FALSE],
          [sq |-> "promo", promotion |-> TRUE]}

\* board.push(mv): the position after a legal move
push(board, mv) ==
    [ply |-> board.ply + 1,
     status |-> CASE mv.sq = "mate" -> "checkmate"
                  [] mv.sq = "stale" -> "stalemate"
                  [] OTHER -> "none"]

\* The tests check_game_over makes on a board, by the method it calls.
Tests == {"checkmate", "stalemate", "insufficient", "repetition", "fifty_moves"}

\* The sets of tests a position can pass at once: a mate is no stalemate and
\* leaves mating material, and no position without legal moves has occurred
\* before.
Positions ==
    {f \in SUBSET Tests :
        /\ "checkmate" \in f => f \subseteq {"checkmate", "fifty_moves"}
        /\ "stalemate" \in f => "repetition" \notin f}

\* check_game_over that tests the fifty-move rule first
game_over_fifty_first(passed, to_move) ==
    CASE "fifty_moves" \in passed -> [winner |-> "draw", reason |-> "fifty_moves"]
      [] "checkmate" \in passed -> [winner |-> other(to_move), reason |-> "checkmate"]
      [] "stalemate" \in passed -> [winner |-> "draw", reason |-> "stalemate"]
      [] "insufficient" \in passed -> [winner |-> "draw", reason |-> "insufficient"]
      [] "repetition" \in passed -> [winner |-> "draw", reason |-> "repetition"]
      [] OTHER -> [winner |-> None, reason |-> None]

\* check_game_over, on the tests the board passes and the side to move: the
\* first test that passes, in the order of the code, gives the result
game_over(passed, to_move) ==
    CASE "checkmate" \in passed ->
             [winner |-> IF to_move # "white" THEN "white" ELSE "black",
              reason |-> "checkmate"]
      [] "stalemate" \in passed -> [winner |-> "draw", reason |-> "stalemate"]
      [] "insufficient" \in passed -> [winner |-> "draw", reason |-> "insufficient"]
      [] "repetition" \in passed -> [winner |-> "draw", reason |-> "repetition"]
      [] "fifty_moves" \in passed -> [winner |-> "draw", reason |-> "fifty_moves"]
      [] OTHER -> [winner |-> None, reason |-> None]

check_game_over(board) == game_over({board.status} \cap Tests, turn(board))

\* ------------------------------------------------------------------- games
has(r) == r \in DOMAIN games

\* games[r] = g
put(r, g) == [x \in DOMAIN games \cup {r} |-> IF x = r THEN g ELSE games[x]]

\* del games[r]
del(r) == [x \in DOMAIN games \ {r} |-> games[x]]

\* the game dict built by create (bot or friend room)
NewGame(s, name, is_bot, creator_color) ==
    [board |-> NewBoard,
     whiteTime |-> TimeControl,
     blackTime |-> TimeControl,
     lastUpdate |-> now,
     isActive |-> is_bot,
     winner |-> None,
     reason |-> None,
     bot |-> is_bot,
     white_player |-> IF creator_color = "white" THEN name ELSE None,
     black_player |-> IF is_bot THEN BotName
                      ELSE IF creator_color = "black" THEN name ELSE None,
     white_sid |-> IF creator_color = "white" THEN s ELSE NoSid,
     black_sid |-> IF creator_color = "black" THEN s ELSE NoSid,
     white_disconnect_timer |-> FALSE,
     black_disconnect_timer |-> FALSE,
     clients |-> {s},
     spectators |-> {},
     game_mode |-> IF is_bot THEN "bot" ELSE "friend",
     move_history |-> <<>>,
     saved |-> FALSE,
     rematch_requests |-> {},
     calls |-> 0,      \* save_game_record invocations for this game
     writes |-> 0,     \* save_game_record invocations that committed
     timeControl |-> TimeControl,  \* the timeControl the game was created with
     voters |-> {},    \* the connections whose rematch request is recorded
     moved |-> now]    \* the time of the last push on the board (or of its creation)

Min0(x) == IF x < 0 THEN 0 ELSE x

\* update_time that runs the clock down but never flags it
update_time_noflag(g) ==
    IF ~g.isActive \/ g.winner # None THEN g
    ELSE LET elapsed == now - g.lastUpdate
             g1 == [g EXCEPT !.lastUpdate = now]
         IN IF turn(g.board) = "white"
            THEN [g1 EXCEPT !.whiteTime = Min0(g.whiteTime - elapsed)]
            ELSE [g1 EXCEPT !.blackTime = Min0(g.blackTime - elapsed)]

update_time(g) ==
    IF ~g.isActive \/ g.winner # None THEN g
    ELSE LET elapsed == now - g.lastUpdate
             g1 == [g EXCEPT !.lastUpdate = now]
         IN IF turn(g.board) = "white"
            THEN LET t == Min0(g.whiteTime - elapsed)
                 IN IF t <= 0
                    THEN [g1 EXCEPT !.whiteTime = t, !.winner = "black",
                                    !.reason = "timeout"]
                    ELSE [g1 EXCEPT !.whiteTime = t]
            ELSE LET t == Min0(g.blackTime - elapsed)
                 IN IF t <= 0
                    THEN [g1 EXCEPT !.blackTime = t, !.winner = "white",
                                    !.reason = "timeout"]
                    ELSE [g1 EXCEPT !.blackTime = t]

\* g["lock"] is held by the thread of a locking handler that is inside
\* save_game_record for the game now registered under r, by the bot_play
\* thread that is asking the engine for its move, or by the ticker's thread
\* that is in its loop over the clients.
locked(r) == \E who \in LockHolders : saving[r][who] \in {"db", "engine", "emit"}

idle(r, who) == saving[r][who] = "idle"

\* save_game up to the call of save_game_record: nothing when the game is
\* flagged saved, else the call starts.
save_game_g(g) == IF g.saved THEN g ELSE [g EXCEPT !.calls = @ + 1]

\* the bound on save_game_record calls per game
can_save(g) == g.saved \/ g.calls < MaxCalls

save_game_saving(r, g, who) ==
    IF g.saved THEN saving ELSE [saving EXCEPT ![r][who] = "db"]

\* The threads inside save_game_record for a dict that `games` no longer holds
\* (deleted or replaced) finish on that dict, out of the registry's sight.
orphaned(r) == [saving EXCEPT ![r] = [who \in Callers |-> "idle"]]

\* the socket id and the player name of a seat
sid_of(g, color) == IF color = "white" THEN g.white_sid ELSE g.black_sid
player_of(g, color) == IF color = "white" THEN g.white_player ELSE g.black_player

timer_of(g, color) ==
    IF color = "white" THEN g.white_disconnect_timer ELSE g.black_disconnect_timer

\* cancel_timer, on the dict
cancel_timer(g, color) ==
    IF color = "white" THEN [g EXCEPT !.white_disconnect_timer = FALSE]
    ELSE [g EXCEPT !.black_disconnect_timer = FALSE]

\* cancel_timer, on the Timer thread: Timer.cancel() stops it when the dict
\* still holds its handle
cancelled(r, g, color) ==
    IF timer_of(g, color) THEN timers \ {[room |-> r, color |-> color]} ELSE timers

Done(op, s, r, res) == last' = [op |-> op, res |-> res]

\* -------------------------------------------------------------------- init
Init ==
    /\ games = <<>>
    /\ sid_to_room = [s \in Sids |-> None]
    /\ nextSid = 1
    /\ live = {}
    /\ now = 0
    /\ timers = {}
    /\ botTasks = [r \in AllRooms |-> 0]
    /\ saving = [r \in AllRooms |-> [who \in Callers |-> "idle"]]
    /\ last = [op |-> "init", res |-> None]
    /\ matchmaking_queue = <<>>
    /\ found = {}
    /\ creating = [s \in Sids |-> <<>>]

\* ----------------------------------------------------------------- actions
\* time passes
Tick ==
    /\ now < MaxNow
    /\ now' = now + 1
    /\ UNCHANGED <<games, sid_to_room, nextSid, live, timers, botTasks, saving,
                   last>>
    /\ UNCHANGED <<matchmaking_queue, found, creating>>

\* on_connect: a new connection gets a fresh socket id
Connect(limit) ==
    /\ nextSid <= limit
    /\ live' = live \cup {nextSid}
    /\ nextSid' = nextSid + 1
    /\ Done("connect", nextSid, None, "ok")
    /\ UNCHANGED <<games, sid_to_room, now, timers, botTasks, saving>>
    /\ UNCHANGED <<matchmaking_queue, found, creating>>

\* create
CreateRoom(s, r, name, is_bot, color) ==
    /\ s \in live
    /\ is_bot => color = "white"
    /\ IF has(r) /\ games[r].winner = None
       THEN /\ Done("create", s, r, "room_taken")
            /\ UNCHANGED <<games, sid_to_room, saving>>
       ELSE /\ games' = put(r, NewGame(s, name, is_bot, color))
            /\ sid_to_room' = [sid_to_room EXCEPT ![s] = r]
            /\ saving' = orphaned(r)
            /\ Done("create", s, r, "room_created")
    /\ UNCHANGED <<nextSid, live, now, timers, botTasks>>
    /\ UNCHANGED <<matchmaking_queue, found, creating>>

\* create as its thread runs it: the test of the room id (CreateCheck), the
\* lookup of the user, and then the write of the dict (CreateWrite); other
\* handlers' threads run in between.
create_taken(r) == has(r) /\ games[r].winner = None

CreateCheck(s, r, name, is_bot, color) ==
    /\ s \in live
    /\ creating[s] = <<>>
    /\ is_bot => color = "white"
    /\ IF create_taken(r)
       THEN /\ Done("create", s, r, "room_taken")
            /\ UNCHANGED creating
       ELSE /\ creating' = [creating EXCEPT ![s] =
                               <<[room |-> r, name |-> name, is_bot |-> is_bot,
                                  color |-> color]>>]
            /\ Done("create", s, r, "checked")
    /\ UNCHANGED <<games, sid_to_room, nextSid, live, now, timers, botTasks, saving,
                   matchmaking_queue, found>>

CreateWrite(s) ==
    /\ creating[s] # <<>>
    /\ LET c == creating[s][1]
       IN /\ games' = put(c.room, NewGame(s, c.name, c.is_bot, c.color))
          /\ sid_to_room' = [sid_to_room EXCEPT ![s] = c.room]
          /\ saving' = orphaned(c.room)
          /\ Done("create", s, c.room, "room_created")
    /\ creating' = [creating EXCEPT ![s] = <<>>]
    /\ UNCHANGED <<nextSid, live, now, timers, botTasks, matchmaking_queue, found>>

\* the resolution chain without its two tests of request.sid against the seats
join_branch_nosid(g, s, name, spectate) ==
    CASE name = g.white_player /\ g.white_sid = NoSid -> "rename_white"
      [] g.black_player # None /\ name = g.black_player /\ g.black_sid = NoSid ->
             "rename_black"
      [] spectate \/ (g.white_player # None /\ g.black_player # None) -> "spectator"
      [] g.white_player = None -> "seat_white"
      [] g.black_player = None -> "seat_black"
      [] OTHER -> "full"

\* join: the branch of the resolution chain that is taken, the dict after it,
\* the Timer threads after it and the colour it reports.
seat_of(g, s) ==
    IF s = g.white_sid THEN "white"
    ELSE IF s = g.black_sid THEN "black" ELSE "spectator"

join_branch(g, s, name, spectate) ==
    CASE s = g.white_sid -> "resid_white"
      [] s = g.black_sid -> "resid_black"
      [] name = g.white_player /\ g.white_sid = NoSid -> "rename_white"
      [] g.black_player # None /\ name = g.black_player /\ g.black_sid = NoSid ->
             "rename_black"
      [] spectate \/ (g.white_player # None /\ g.black_player # None) -> "spectator"
      [] g.white_player = None -> "seat_white"
      [] g.black_player = None -> "seat_black"
      [] OTHER -> "full"

\* the resolution chain that seats a newcomer without stamping lastUpdate
join_g_nostamp(g, s, name, spectate) ==
    LET b == join_branch(g, s, name, spectate)
        g1 == CASE b = "resid_white" -> cancel_timer(g, "white")
                [] b = "resid_black" -> cancel_timer(g, "black")
                [] b = "rename_white" ->
                       LET h == [cancel_timer(g, "white") EXCEPT !.white_sid = s]
                       IN IF g.black_sid # NoSid
                          THEN [h EXCEPT !.isActive = TRUE, !.lastUpdate = now]
                          ELSE h
                [] b = "rename_black" ->
                       LET h == [cancel_timer(g, "black") EXCEPT !.black_sid = s]
                       IN IF g.white_sid # NoSid
                          THEN [h EXCEPT !.isActive = TRUE, !.lastUpdate = now]
                          ELSE h
                [] b = "spectator" -> [g EXCEPT !.spectators = @ \cup {s}]
                [] b = "seat_white" ->
                       [g EXCEPT !.white_player = name, !.white_sid = s,
                                 !.isActive = TRUE]
                [] b = "seat_black" ->
                       [g EXCEPT !.black_player = name, !.black_sid = s,
                                 !.isActive = TRUE]
                [] OTHER -> g
    IN IF b = "full" THEN g ELSE [g1 EXCEPT !.clients = @ \cup {s}]

join_g(g, s, name, spectate) ==
    LET b == join_branch(g, s, name, spectate)
        g1 == CASE b = "resid_white" -> cancel_timer(g, "white")
                [] b = "resid_black" -> cancel_timer(g, "black")
                [] b = "rename_white" ->
                       LET h == [cancel_timer(g, "white") EXCEPT !.white_sid = s]
                       IN IF g.black_sid # NoSid
                          THEN [h EXCEPT !.isActive = TRUE, !.lastUpdate = now]
                          ELSE h
                [] b = "rename_black" ->
                       LET h == [cancel_timer(g, "black") EXCEPT !.black_sid = s]
                       IN IF g.white_sid # NoSid
                          THEN [h EXCEPT !.isActive = TRUE, !.lastUpdate = now]
                          ELSE h
                [] b = "spectator" -> [g EXCEPT !.spectators = @ \cup {s}]
                [] b = "seat_white" ->
                       [g EXCEPT !.white_player = name, !.white_sid = s,
                                 !.isActive = TRUE, !.lastUpdate = now]
                [] b = "seat_black" ->
                       [g EXCEPT !.black_player = name, !.black_sid = s,
                                 !.isActive = TRUE, !.lastUpdate = now]
                [] OTHER -> g
    IN IF b = "full" THEN g ELSE [g1 EXCEPT !.clients = @ \cup {s}]

join_timers(r, g, s, name, spectate) ==
    LET b == join_branch(g, s, name, spectate)
    IN CASE b \in {"resid_white", "rename_white"} -> cancelled(r, g, "white")
         [] b \in {"resid_black", "rename_black"} -> cancelled(r, g, "black")
         [] OTHER -> timers

\* The colour room_joined reports: "spectator" on the spectator branch, else
\* my_color computed from the seats after the join.
join_reply(g, s, name, spectate) ==
    LET b == join_branch(g, s, name, spectate)
    IN CASE b = "spectator" -> "spectator"
         [] b = "full" -> "room_full"
         [] OTHER -> seat_of(join_g(g, s, name, spectate), s)

JoinRoom(s, r, name, spectate) ==
    /\ s \in live
    /\ IF ~has(r)
       THEN /\ Done("join", s, r, "room_not_found")
            /\ UNCHANGED <<games, sid_to_room, timers>>
       ELSE LET g == games[r]
            IN /\ games' = put(r, join_g(g, s, name, spectate))
               /\ timers' = join_timers(r, g, s, name, spectate)
               /\ sid_to_room' =
                      IF join_branch(g, s, name, spectate) = "full" THEN sid_to_room
                      ELSE [sid_to_room EXCEPT ![s] = r]
               /\ Done("join", s, r, join_branch(g, s, name, spectate))
    /\ UNCHANGED <<nextSid, live, now, botTasks, saving>>
    /\ UNCHANGED <<matchmaking_queue, found, creating>>

\* on_disconnect: the first queue entry of the socket id is popped
remove_first(q, s) ==
    LET idx == {i \in 1..Len(q) : q[i].sid = s}
    IN IF idx = {} THEN q
       ELSE LET i == CHOOSE j \in idx : \A k \in idx : j <= k
            IN SubSeq(q, 1, i - 1) \o SubSeq(q, i + 1, Len(q))

disconnected_color(g, s) ==
    IF s = g.white_sid THEN "white"
    ELSE IF s = g.black_sid THEN "black" ELSE None

disconnect_g(g, s) ==
    LET c == disconnected_color(g, s)
        g1 == [g EXCEPT !.spectators = IF c = None THEN @ \ {s} ELSE @,
                        !.clients = @ \ {s}]
    IN IF c # None /\ g.isActive /\ g.winner = None
       THEN IF c = "white" THEN [g1 EXCEPT !.white_disconnect_timer = TRUE]
            ELSE [g1 EXCEPT !.black_disconnect_timer = TRUE]
       ELSE g1

Disconnect(s) ==
    /\ s \in live
    /\ live' = live \ {s}
    /\ sid_to_room' = [sid_to_room EXCEPT ![s] = None]
    /\ LET r == sid_to_room[s]
       IN IF r # None /\ has(r)
          THEN LET g == games[r]
                   c == disconnected_color(g, s)
                   g1 == disconnect_g(g, s)
               IN /\ timers' = IF c # None /\ g.isActive /\ g.winner = None
                               THEN timers \cup {[room |-> r, color |-> c]}
                               ELSE timers
                  /\ IF g1.clients = {} /\ ~g1.white_disconnect_timer
                        /\ ~g1.black_disconnect_timer
                     THEN /\ games' = del(r)
                          /\ saving' = orphaned(r)
                          /\ Done("disconnect", s, r, "room_deleted")
                     ELSE /\ games' = put(r, g1)
                          /\ saving' = saving
                          /\ Done("disconnect", s, r,
                                  IF c # None /\ g.isActive /\ g.winner = None
                                  THEN "timer_started" ELSE "left")
          ELSE /\ Done("disconnect", s, r, "no_room")
               /\ UNCHANGED <<games, timers, saving>>
    /\ UNCHANGED <<nextSid, now, botTasks>>
    /\ matchmaking_queue' = remove_first(matchmaking_queue, s)
    /\ UNCHANGED <<found, creating>>

\* a forfeiture that names the seat that left as the winner
abandon_wrong(g, color) ==
    [cancel_timer(g, color) EXCEPT !.winner = color, !.reason = "abandonment"]

\* the forfeiture handle_disconnect_timeout writes into the dict
abandon(g, color) ==
    [cancel_timer(g, color) EXCEPT !.winner = other(color), !.reason = "abandonment"]

\* handle_disconnect_timeout, run by the Timer thread when the grace period
\* is over
TimerFire(r, color) ==
    /\ [room |-> r, color |-> color] \in timers
    /\ timers' = timers \ {[room |-> r, color |-> color]}
    /\ IF ~has(r)
       THEN /\ Done("timer", NoSid, r, "no_room")
            /\ UNCHANGED <<games, saving>>
       ELSE /\ ~locked(r)
            /\ idle(r, "timer")
            /\ LET g == games[r]
               IN IF g.winner # None
                  THEN /\ Done("timer", NoSid, r, "terminal")
                       /\ UNCHANGED <<games, saving>>
                  ELSE IF timer_of(g, color)
                  THEN LET g1 == abandon(g, color)
                       IN /\ can_save(g1) /\ games' = put(r, save_game_g(g1))
                          /\ saving' = save_game_saving(r, g1, "timer")
                          /\ Done("timer", NoSid, r, color)
                  ELSE /\ Done("timer", NoSid, r, "cancelled")
                       /\ UNCHANGED <<games, saving>>
    /\ UNCHANGED <<sid_to_room, nextSid, live, now, botTasks>>
    /\ UNCHANGED <<matchmaking_queue, found, creating>>

\* timeout_watcher, one room of one round
Ticker(r) ==
    /\ has(r)
    /\ games[r].isActive /\ games[r].winner = None
    /\ ~locked(r)
    /\ idle(r, "ticker")
    /\ LET g1 == update_time(games[r])
       IN IF g1.winner # None
          THEN /\ can_save(g1) /\ games' = put(r, save_game_g(g1))
               /\ saving' = save_game_saving(r, g1, "ticker")
               /\ Done("ticker", NoSid, r, "timeout")
          ELSE /\ games' = put(r, g1)
               /\ saving' = saving
               /\ Done("ticker", NoSid, r, "running")
    /\ UNCHANGED <<sid_to_room, nextSid, live, now, timers, botTasks>>
    /\ UNCHANGED <<matchmaking_queue, found, creating>>

\* move: the chess.Move the handler ends up testing against board.legal_moves
resolve(board, d) ==
    LET mv == [sq |-> d.sq, promotion |-> d.promotion]
    IN IF mv \notin legal_moves(board) /\ ~d.promotion
       THEN [sq |-> d.sq, promotion |-> TRUE]
       ELSE mv

entry(g, mv, board) ==
    [notation |-> mv.sq, white_time |-> g.whiteTime, black_time |-> g.blackTime,
     fen |-> board]

\* board.push, the move_history entry and check_game_over, as move and
\* bot_play do them
ends(g, mv) == check_game_over(push(g.board, mv)).winner # None

\* a push that leaves move_history as it is
apply_move_nolog(g, mv) ==
    LET board == push(g.board, mv)
        g1 == [g EXCEPT !.board = board, !.moved = now]
        over == check_game_over(board)
    IN IF over.winner # None
       THEN [g1 EXCEPT !.winner = over.winner, !.reason = over.reason]
       ELSE g1

apply_move(g, mv) ==
    LET board == push(g.board, mv)
        g1 == [g EXCEPT !.board = board,
                        !.move_history = Append(@, entry(g, mv, board)),
                        !.moved = now]
        over == check_game_over(board)
    IN IF over.winner # None
       THEN [g1 EXCEPT !.winner = over.winner, !.reason = over.reason]
       ELSE g1

MoveWithin(s, r, d, plies, pending) ==
    /\ s \in live
    /\ IF ~has(r)
       THEN /\ Done("move", s, r, "no_room")
            /\ UNCHANGED <<games, saving, botTasks>>
       ELSE IF ~games[r].isActive
       THEN /\ Done("move", s, r, "waiting")
            /\ UNCHANGED <<games, saving, botTasks>>
       ELSE /\ ~locked(r)
            /\ idle(r, "move")
            /\ games[r].board.ply < plies
            /\ LET g == games[r]
                   g1 == update_time(g)
                   mv == resolve(g1.board, d)
               IN IF g1.winner # None
                  THEN /\ games' = put(r, g1)
                       /\ Done("move", s, r,
                               IF g.winner = None THEN "timeout" ELSE "terminal")
                       /\ UNCHANGED <<saving, botTasks>>
                  ELSE IF mv \in legal_moves(g1.board)
                  THEN LET g2 == apply_move(g1, mv)
                       IN /\ g2.bot /\ g2.winner = None => botTasks[r] < pending
                          /\ IF ends(g1, mv)
                             THEN /\ can_save(g2) /\ games' = put(r, save_game_g(g2))
                                  /\ saving' = save_game_saving(r, g2, "move")
                             ELSE /\ games' = put(r, g2)
                                  /\ saving' = saving
                          /\ botTasks' = IF g2.bot /\ g2.winner = None
                                         THEN [botTasks EXCEPT ![r] = @ + 1]
                                         ELSE botTasks
                          /\ Done("move", s, r, "applied")
                  ELSE /\ games' = put(r, g1)
                       /\ Done("move", s, r, "illegal")
                       /\ UNCHANGED <<saving, botTasks>>
    /\ UNCHANGED <<sid_to_room, nextSid, live, now, timers>>
    /\ UNCHANGED <<matchmaking_queue, found, creating>>

\* move, within the bounds of the specification it is part of
Move(s, r, d) == MoveWithin(s, r, d, MaxPly, MaxBotTasks)

\* bot_play that gives up its turn when the engine fails
best_moves_nofallback(board, engine_ok) ==
    IF engine_ok THEN {<<mv>> : mv \in legal_moves(board)} ELSE {<<>>}

\* best_move of bot_play, as <<>> for None: result.move when the engine
\* answers, random.choice(list(board.legal_moves)) when it is missing or fails
best_moves(board, engine_ok) == {<<mv>> : mv \in legal_moves(board)}

\* a thread that keeps the lock it holds
release_never(sv, r, who) == sv

\* the end of the handler's `with g["lock"]:` block (of the handler, for the
\* ones that take no lock)
release(sv, r, who) == [sv EXCEPT ![r][who] = "idle"]

\* bot_play as its thread runs it: after the sleep it takes the lock and tests
\* the board (BotStart), asks the engine, and commits the move (BotCommit)
BotStart(r, plies) ==
    /\ botTasks[r] > 0
    /\ botTasks' = [botTasks EXCEPT ![r] = @ - 1]
    /\ IF ~has(r)
       THEN /\ Done("bot", NoSid, r, "no_room")
            /\ UNCHANGED saving
       ELSE /\ ~locked(r)
            /\ idle(r, "bot")
            /\ IF is_game_over(games[r].board)
               THEN /\ Done("bot", NoSid, r, "game_over")
                    /\ UNCHANGED saving
               ELSE /\ games[r].board.ply < plies
                    /\ saving' = [saving EXCEPT ![r]["bot"] = "engine"]
                    /\ Done("bot", NoSid, r, "thinking")
    /\ UNCHANGED <<games, sid_to_room, nextSid, live, now, timers,
                   matchmaking_queue, found, creating>>

BotCommit(r, best_move, engine_ok) ==
    /\ saving[r]["bot"] = "engine"
    /\ has(r)
    /\ best_move \in best_moves(games[r].board, engine_ok)
    /\ IF best_move = <<>>
       THEN /\ saving' = release(saving, r, "bot")
            /\ Done("bot", NoSid, r, "no_move")
            /\ UNCHANGED games
       ELSE LET g == games[r]
                g2 == apply_move(g, best_move[1])
            IN /\ IF ends(g, best_move[1])
                  THEN /\ can_save(g2) /\ games' = put(r, save_game_g(g2))
                       /\ saving' = IF g2.saved
                                     THEN release(saving, r, "bot")
                                     ELSE [saving EXCEPT ![r]["bot"] = "db"]
                  ELSE /\ games' = put(r, g2)
                       /\ saving' = release(saving, r, "bot")
               /\ Done("bot", NoSid, r, IF engine_ok THEN "applied" ELSE "fallback")
    /\ UNCHANGED <<sid_to_room, nextSid, live, now, timers, botTasks,
                   matchmaking_queue, found, creating>>

\* bot_play, started by move as a background task; best_move is the engine's
\* choice or random.choice over the legal moves
BotPlay(r, best_move) ==
    /\ botTasks[r] > 0
    /\ botTasks' = [botTasks EXCEPT ![r] = @ - 1]
    /\ IF ~has(r)
       THEN /\ Done("bot", NoSid, r, "no_room")
            /\ UNCHANGED <<games, saving>>
       ELSE /\ ~locked(r)
            /\ idle(r, "bot")
            /\ LET g == games[r]
               IN IF is_game_over(g.board)
                  THEN /\ Done("bot", NoSid, r, "game_over")
                       /\ UNCHANGED <<games, saving>>
                  ELSE /\ g.board.ply < MaxPly
                       /\ best_move \in legal_moves(g.board)
                       /\ LET g2 == apply_move(g, best_move)
                          IN IF ends(g, best_move)
                             THEN /\ can_save(g2) /\ games' = put(r, save_game_g(g2))
                                  /\ saving' = save_game_saving(r, g2, "bot")
                             ELSE /\ games' = put(r, g2)
                                  /\ saving' = saving
                       /\ Done("bot", NoSid, r, "applied")
    /\ UNCHANGED <<sid_to_room, nextSid, live, now, timers>>
    /\ UNCHANGED <<matchmaking_queue, found, creating>>

\* resign
Resign(s, r, color) ==
    /\ s \in live
    /\ idle(r, "resign")
    /\ IF ~has(r)
       THEN /\ Done("resign", s, r, "no_room")
            /\ UNCHANGED <<games, saving>>
       ELSE IF games[r].winner # None
       THEN /\ Done("resign", s, r, "terminal")
            /\ UNCHANGED <<games, saving>>
       ELSE LET g1 == [games[r] EXCEPT !.winner = other(color), !.reason = "resign"]
            IN /\ can_save(g1) /\ games' = put(r, save_game_g(g1))
               /\ saving' = save_game_saving(r, g1, "resign")
               /\ Done("resign", s, r, "resigned")
    /\ UNCHANGED <<sid_to_room, nextSid, live, now, timers, botTasks>>
    /\ UNCHANGED <<matchmaking_queue, found, creating>>

\* respond_draw
RespondDraw(s, r, accept) ==
    /\ s \in live
    /\ idle(r, "draw")
    /\ IF ~has(r)
       THEN /\ Done("respond_draw", s, r, "no_room")
            /\ UNCHANGED <<games, saving>>
       ELSE IF accept
       THEN LET g1 == [games[r] EXCEPT !.winner = "draw", !.reason = "agreement"]
            IN /\ can_save(g1) /\ games' = put(r, save_game_g(g1))
               /\ saving' = save_game_saving(r, g1, "draw")
               /\ Done("respond_draw", s, r, "accepted")
       ELSE /\ Done("respond_draw", s, r, "declined")
            /\ UNCHANGED <<games, saving>>
    /\ UNCHANGED <<sid_to_room, nextSid, live, now, timers, botTasks>>
    /\ UNCHANGED <<matchmaking_queue, found, creating>>

\* save_game that takes the result back when the record is not written
save_result_rollback(g, success) ==
    IF success THEN [g EXCEPT !.saved = TRUE, !.writes = @ + 1]
    ELSE [g EXCEPT !.winner = None, !.reason = None]

\* save_game from the return of save_game_record on: the saved flag on
\* success; a False and an exception are printed and nothing else
save_result(g, success) ==
    IF success THEN [g EXCEPT !.saved = TRUE, !.writes = @ + 1] ELSE g

\* the connections the handler sends game_update to once save_game has
\* returned: save_game raises nothing, so the loop over the clients runs
game_update(g, success) == g.clients

\* save_game from the return of save_game_record on, then the rest of the
\* handler and the release of the lock
SaveDone(r, who, success) ==
    /\ saving[r][who] = "db"
    /\ saving' = release(saving, r, who)
    /\ games' = put(r, save_result(games[r], success))
    /\ UNCHANGED <<sid_to_room, nextSid, live, now, timers, botTasks, last>>
    /\ UNCHANGED <<matchmaking_queue, found, creating>>

\* timeout_watcher as its thread runs it after the flag fell: save_game
\* returns and the loop over g["clients"] starts (TickerSaved); the loop has
\* sent game_update to every client and the lock is left (TickerEmitted)
TickerSaved(r, success) ==
    /\ saving[r]["ticker"] = "db"
    /\ saving' = [saving EXCEPT ![r]["ticker"] = "emit"]
    /\ games' = put(r, save_result(games[r], success))
    /\ Done("ticker", NoSid, r, "game_update")
    /\ UNCHANGED <<sid_to_room, nextSid, live, now, timers, botTasks,
                   matchmaking_queue, found, creating>>

TickerEmitted(r) ==
    /\ saving[r]["ticker"] = "emit"
    /\ saving' = [saving EXCEPT ![r]["ticker"] = "idle"]
    /\ Done("ticker", NoSid, r, "sent")
    /\ UNCHANGED <<games, sid_to_room, nextSid, live, now, timers, botTasks,
                   matchmaking_queue, found, creating>>

\* send_message
msg_res(s, r, sender) ==
    IF sender = "spectator" THEN "rejected"
    ELSE IF has(r) /\ s \notin {games[r].white_sid, games[r].black_sid}
    THEN "rejected"
    ELSE "chat_message"

SendMessage(s, r, sender) ==
    /\ s \in live
    /\ Done("send_message", s, r, msg_res(s, r, sender))
    /\ UNCHANGED <<games, sid_to_room, nextSid, live, now, timers, botTasks,
                   saving>>
    /\ UNCHANGED <<matchmaking_queue, found, creating>>

\* typing
typing_res(sender) == IF sender = "spectator" THEN "rejected" ELSE "user_typing"

Typing(s, r, sender) ==
    /\ s \in live
    /\ Done("typing", s, r, typing_res(sender))
    /\ UNCHANGED <<games, sid_to_room, nextSid, live, now, timers, botTasks,
                   saving>>
    /\ UNCHANGED <<matchmaking_queue, found, creating>>

\* ------------------------------------------------------------ matchmaking
\* the time controls asked for in matchmaking
MatchTimes == {TimeControl, TimeControl + 1}

\* the first of a set of queue indexes, 0 when the set is empty
first_index(idx) == IF idx = {} THEN 0 ELSE CHOOSE j \in idx : \A k \in idx : j <= k

\* the indexes of the entries of socket id s, and of the entries another
\* socket id queued with the time control
mine(q, s) == {i \in 1..Len(q) : q[i].sid = s}
fits(q, s, time_control) ==
    {i \in 1..Len(q) : q[i].timeControl = time_control /\ q[i].sid # s}

pop(q, i) == SubSeq(q, 1, i - 1) \o SubSeq(q, i + 1, Len(q))

\* join_matchmaking that neither looks for the caller in the queue nor skips
\* the caller's own entry
enqueue_anyone(q, s, name, time_control) ==
    LET i == first_index({k \in 1..Len(q) : q[k].timeControl = time_control})
    IN IF i # 0
       THEN [status |-> "found", queue |-> pop(q, i), match |-> <<q[i]>>]
       ELSE [status |-> "searching",
             queue |-> Append(q, [sid |-> s, playerName |-> name,
                                  timeControl |-> time_control]),
             match |-> <<>>]

\* join_matchmaking that does not look for the caller in the queue
enqueue_again(q, s, name, time_control) ==
    LET i == first_index(fits(q, s, time_control))
    IN IF i # 0
       THEN [status |-> "found", queue |-> pop(q, i), match |-> <<q[i]>>]
       ELSE [status |-> "searching",
             queue |-> Append(q, [sid |-> s, playerName |-> name,
                                  timeControl |-> time_control]),
             match |-> <<>>]

\* join_matchmaking that leaves the matched entry in the queue
enqueue_nopop(q, s, name, time_control) ==
    LET i == first_index(fits(q, s, time_control))
    IN IF mine(q, s) # {}
       THEN [status |-> "already_in_queue", queue |-> q, match |-> <<>>]
       ELSE IF i # 0
       THEN [status |-> "found", queue |-> q, match |-> <<q[i]>>]
       ELSE [status |-> "searching",
             queue |-> Append(q, [sid |-> s, playerName |-> name,
                                  timeControl |-> time_control]),
             match |-> <<>>]

\* join_matchmaking that finds the match but pops the head of the queue
enqueue_pophead(q, s, name, time_control) ==
    LET i == first_index(fits(q, s, time_control))
    IN IF mine(q, s) # {}
       THEN [status |-> "already_in_queue", queue |-> q, match |-> <<>>]
       ELSE IF i # 0
       THEN [status |-> "found", queue |-> Tail(q), match |-> <<q[i]>>]
       ELSE [status |-> "searching",
             queue |-> Append(q, [sid |-> s, playerName |-> name,
                                  timeControl |-> time_control]),
             match |-> <<>>]

\* join_matchmaking that looks for a match at the head of the queue only
enqueue_headonly(q, s, name, time_control) ==
    LET i == first_index(fits(q, s, time_control) \cap {1})
    IN IF mine(q, s) # {}
       THEN [status |-> "already_in_queue", queue |-> q, match |-> <<>>]
       ELSE IF i # 0
       THEN [status |-> "found", queue |-> pop(q, i), match |-> <<q[i]>>]
       ELSE [status |-> "searching",
             queue |-> Append(q, [sid |-> s, playerName |-> name,
                                  timeControl |-> time_control]),
             match |-> <<>>]

\* join_matchmaking under matchmaking_lock: the status it reports, the queue
\* it leaves and the entry it matched
enqueue(q, s, name, time_control) ==
    LET i == first_index(fits(q, s, time_control))
    IN IF mine(q, s) # {}
       THEN [status |-> "already_in_queue", queue |-> q, match |-> <<>>]
       ELSE IF i # 0
       THEN [status |-> "found", queue |-> pop(q, i), match |-> <<q[i]>>]
       ELSE [status |-> "searching",
             queue |-> Append(q, [sid |-> s, playerName |-> name,
                                  timeControl |-> time_control]),
             match |-> <<>>]

\* the game dict built by join_matchmaking
MatchGame(white_player, black_player, time_control) ==
    [NewGame(NoSid, white_player, FALSE, "white") EXCEPT
        !.whiteTime = time_control,
        !.blackTime = time_control,
        !.timeControl = time_control,
        !.black_player = black_player,
        !.white_sid = NoSid,
        !.clients = {},
        !.game_mode = "global"]

\* join_matchmaking; white_first is the outcome of random.choice
JoinMatchmaking(s, name, time_control, white_first) ==
    /\ s \in live
    /\ LET e == enqueue(matchmaking_queue, s, name, time_control)
       IN /\ Len(e.queue) <= MaxQueue
          /\ matchmaking_queue' = e.queue
          /\ Done("join_matchmaking", s, None, e.status)
          /\ IF e.status = "found"
             THEN \E room \in NewRooms \ DOMAIN games :
                     LET m == e.match[1]
                         white_player == IF white_first THEN name ELSE m.playerName
                         black_player == IF white_first THEN m.playerName ELSE name
                         white_sid == IF white_first THEN s ELSE m.sid
                         black_sid == IF white_first THEN m.sid ELSE s
                     IN /\ games' = put(room, MatchGame(white_player, black_player,
                                                        time_control))
                        /\ found' = {[room |-> room, white_sid |-> white_sid,
                                       black_sid |-> black_sid]}
             ELSE UNCHANGED <<games, found>>
    /\ UNCHANGED <<sid_to_room, nextSid, live, now, timers, botTasks, saving,
                   creating>>

\* cancel_matchmaking
CancelMatchmaking(s) ==
    /\ s \in live
    /\ matchmaking_queue' = remove_first(matchmaking_queue, s)
    /\ Done("cancel_matchmaking", s, None,
            IF matchmaking_queue' = matchmaking_queue THEN "not_queued"
            ELSE "matchmaking_cancelled")
    /\ UNCHANGED <<games, sid_to_room, nextSid, live, now, timers, botTasks, saving,
                   found, creating>>

\* ---------------------------------------------------------------- rematch
\* the clock a rematch starts with when white's clock of the old game is at 0
DefaultTimeControl == 300

\* time_control of request_rematch
rematch_time(g) == IF g.whiteTime > 0 THEN g.whiteTime ELSE DefaultTimeControl

\* a vote that counts for both colours
rematch_votes_both(g, color) == g.rematch_requests \cup Colors

\* g["rematch_requests"].add(requester_color)
rematch_votes(g, color) == g.rematch_requests \cup {color}

\* the dict of the bot rematch
RematchBotGame(g, s, color) ==
    [NewGame(s, player_of(g, color), TRUE, "white") EXCEPT
        !.whiteTime = rematch_time(g),
        !.blackTime = rematch_time(g),
        !.timeControl = rematch_time(g)]

\* the dict of the rematch of two players
RematchGame(g) ==
    [NewGame(g.white_sid, g.white_player, FALSE, "white") EXCEPT
        !.whiteTime = rematch_time(g),
        !.blackTime = rematch_time(g),
        !.timeControl = rematch_time(g),
        !.isActive = TRUE,
        !.black_player = g.black_player,
        !.black_sid = g.black_sid,
        !.clients = {g.white_sid, g.black_sid},
        !.game_mode = g.game_mode]

\* request_rematch
RequestRematchIn(s, r, fresh) ==
    /\ s \in live
    /\ IF ~has(r)
       THEN /\ Done("request_rematch", s, r, "no_room")
            /\ UNCHANGED <<games, sid_to_room>>
       ELSE IF s \notin {games[r].white_sid, games[r].black_sid}
       THEN /\ Done("request_rematch", s, r, "not_a_player")
            /\ UNCHANGED <<games, sid_to_room>>
       ELSE LET g == games[r]
                color == seat_of(g, s)
                g1 == [g EXCEPT !.rematch_requests = rematch_votes(g, color),
                                !.voters = @ \cup {s}]
            IN IF g.game_mode = "bot"
               THEN \E new_room \in fresh \ DOMAIN games :
                       /\ games' = put(new_room, RematchBotGame(g, s, color))
                       /\ sid_to_room' = [sid_to_room EXCEPT ![s] = new_room]
                       /\ Done("request_rematch", s, r, "rematch_started")
               ELSE IF Cardinality(g1.rematch_requests) = 2
               THEN \E new_room \in fresh \ DOMAIN games :
                       /\ games' = [put(new_room, RematchGame(g)) EXCEPT ![r] = g1]
                       /\ sid_to_room' = [sid_to_room EXCEPT ![g.white_sid] = new_room,
                                                             ![g.black_sid] = new_room]
                       /\ Done("request_rematch", s, r, "rematch_started")
               ELSE /\ games' = put(r, g1)
                    /\ UNCHANGED sid_to_room
                    /\ Done("request_rematch", s, r, "rematch_requested")
    /\ UNCHANGED <<nextSid, live, now, timers, botTasks, saving, matchmaking_queue,
                   found, creating>>

\* request_rematch, with the room ids of the specification it is part of
RequestRematch(s, r) == RequestRematchIn(s, r, NewRooms)

\* decline_rematch
DeclineRematch(s, r) ==
    /\ s \in live
    /\ IF has(r) /\ s \in {games[r].white_sid, games[r].black_sid}
       THEN /\ games' = put(r, [games[r] EXCEPT !.rematch_requests = {},
                                                !.voters = {}])
            /\ Done("decline_rematch", s, r, "rematch_declined")
       ELSE /\ Done("decline_rematch", s, r, "ignored")
            /\ UNCHANGED games
    /\ UNCHANGED <<sid_to_room, nextSid, live, now, timers, botTasks, saving,
                   matchmaking_queue, found, creating>>

\* ---------------------------------------------------------- specifications
\* The play of one room: a creator (against the bot, or waiting for a friend),
\* a second player, the clocks, the moves, the results and their recording.
Next ==
    \/ Tick
    \/ Connect(PlaySids)
    \/ \E s \in Sids, r \in Rooms, is_bot \in BOOLEAN :
          CreateRoom(s, r, "A", is_bot, "white")
    \/ \E s \in Sids, r \in Rooms : JoinRoom(s, r, "B", FALSE)
    \/ \E s \in Sids : Disconnect(s)
    \/ \E r \in Rooms, color \in Colors : TimerFire(r, color)
    \/ \E r \in Rooms : Ticker(r)
    \/ \E s \in Sids, r \in Rooms, d \in PlayMoves : Move(s, r, d)
    \/ \E r \in Rooms, mv \in PlayMoves : BotPlay(r, mv)
    \/ \E s \in Sids, r \in Rooms, color \in Colors : Resign(s, r, color)
    \/ \E s \in Sids, r \in Rooms, accept \in BOOLEAN : RespondDraw(s, r, accept)
    \/ \E r \in Rooms, who \in Callers, success \in BOOLEAN : SaveDone(r, who, success)

Spec == Init /\ [][Next]_vars

\* The seats of one room: every way to create and join it, disconnects, the
\* grace timers, and a resignation to end the game.
NextJoin ==
    \/ Connect(MaxSids)
    \/ \E s \in Sids, r \in Rooms, name \in PlayerNames, is_bot \in BOOLEAN,
          color \in Colors : CreateRoom(s, r, name, is_bot, color)
    \/ \E s \in Sids, r \in Rooms, name \in PlayerNames \cup {BotName},
          spectate \in BOOLEAN : JoinRoom(s, r, name, spectate)
    \/ \E s \in Sids : Disconnect(s)
    \/ \E r \in Rooms, color \in Colors : TimerFire(r, color)
    \/ \E s \in Sids, r \in Rooms, color \in Colors : Resign(s, r, color)
    \/ \E r \in Rooms, who \in Callers, success \in BOOLEAN : SaveDone(r, who, success)

SpecJoin == Init /\ [][NextJoin]_vars

\* The events of a room's connections: players and spectators who chat, type
\* and move.
NextChat ==
    \/ Connect(MaxSids)
    \/ \E s \in Sids, r \in Rooms, color \in Colors : CreateRoom(s, r, "A", FALSE, color)
    \/ \E s \in Sids, r \in Rooms, spectate \in BOOLEAN : JoinRoom(s, r, "B", spectate)
    \/ \E s \in Sids : Disconnect(s)
    \/ \E s \in Sids, r \in Rooms, d \in MoveInputs : Move(s, r, d)
    \/ \E s \in Sids, r \in Rooms, sender \in Senders : SendMessage(s, r, sender)
    \/ \E s \in Sids, r \in Rooms, sender \in Senders : Typing(s, r, sender)

SpecChat == Init /\ [][NextChat]_vars

\* The registration of one room id by the threads of two connections, and the
\* game that is played, resigned and replaced under it.
NextCreate ==
    \/ Tick
    \/ Connect(PlaySids)
    \/ \E s \in Sids, r \in Rooms, is_bot \in BOOLEAN, color \in Colors :
          CreateCheck(s, r, "A", is_bot, color)
    \/ \E s \in Sids : CreateWrite(s)
    \/ \E s \in Sids, r \in Rooms : JoinRoom(s, r, "B", FALSE)
    \/ \E s \in Sids : Disconnect(s)
    \/ \E r \in Rooms, color \in Colors : TimerFire(r, color)
    \/ \E s \in Sids, r \in Rooms, color \in Colors : Resign(s, r, color)
    \/ \E r \in Rooms, who \in Callers, success \in BOOLEAN : SaveDone(r, who, success)

SpecCreate == Init /\ [][NextCreate]_vars

\* Matchmaking: connections that enqueue, cancel and drop, and the players
\* who join the room they were matched into.
NextMatch ==
    \/ Connect(PlaySids)
    \/ \E s \in Sids, name \in PlayerNames, time_control \in MatchTimes,
          white_first \in BOOLEAN : JoinMatchmaking(s, name, time_control, white_first)
    \/ \E s \in Sids : CancelMatchmaking(s)
    \/ \E s \in Sids, r \in NewRooms, name \in PlayerNames : JoinRoom(s, r, name, FALSE)
    \/ \E s \in Sids : Disconnect(s)

SpecMatch == Init /\ [][NextMatch]_vars

\* The queue: three connections that ask for a match, cancel and leave.
NextQueue ==
    \/ Connect(MaxSids)
    \/ \E s \in Sids, name \in PlayerNames, time_control \in MatchTimes,
          white_first \in BOOLEAN : JoinMatchmaking(s, name, time_control, white_first)
    \/ \E s \in Sids : CancelMatchmaking(s)
    \/ \E s \in Sids : Disconnect(s)

SpecQueue == Init /\ [][NextQueue]_vars

\* Rematch: a game against the bot or between two players whose clocks run,
\* that ends by a flag or a resignation, and the rematch votes of its seats.
NextRematch ==
    \/ Tick
    \/ Connect(PlaySids)
    \/ \E s \in Sids, r \in Rooms, is_bot \in BOOLEAN :
          CreateRoom(s, r, "A", is_bot, "white")
    \/ \E s \in Sids, r \in Rooms : JoinRoom(s, r, "B", FALSE)
    \/ \E s \in Sids : Disconnect(s)
    \/ \E r \in Rooms : Ticker(r)
    \/ \E s \in Sids, r \in Rooms, color \in Colors : Resign(s, r, color)
    \/ \E r \in Rooms, who \in Callers, success \in BOOLEAN : SaveDone(r, who, success)
    \/ \E s \in Sids, r \in Rooms : RequestRematch(s, r)
    \/ \E s \in Sids, r \in Rooms : DeclineRematch(s, r)

SpecRematch == Init /\ [][NextRematch]_vars

\* Repeated rematches: a game between two players that is resigned, and the
\* rematch requests of its seats, each under a new room id.
NextAgain ==
    \/ Connect(PlaySids)
    \/ \E s \in Sids, r \in Rooms : CreateRoom(s, r, "A", FALSE, "white")
    \/ \E s \in Sids, r \in Rooms : JoinRoom(s, r, "B", FALSE)
    \/ \E s \in Sids : Disconnect(s)
    \/ \E s \in Sids, r \in Rooms, color \in Colors : Resign(s, r, color)
    \/ \E r \in Rooms, who \in Callers, success \in BOOLEAN : SaveDone(r, who, success)
    \/ \E s \in Sids, r \in Rooms : RequestRematchIn(s, r, MoreRooms)
    \/ \E s \in Sids, r \in Rooms : DeclineRematch(s, r)

SpecAgain == Init /\ [][NextAgain]_vars

\* The ticker: games whose clocks run down with nobody moving, the ticker's
\* thread that flags them, records them and sends the result, and the
\* connections that come and go meanwhile.
NextTicker ==
    \/ Tick
    \/ Connect(PlaySids)
    \/ \E s \in Sids, r \in Rooms, is_bot \in BOOLEAN :
          CreateRoom(s, r, "A", is_bot, "white")
    \/ \E s \in Sids, r \in Rooms : JoinRoom(s, r, "B", FALSE)
    \/ \E s \in Sids : Disconnect(s)
    \/ \E r \in Rooms : Ticker(r)
    \/ \E r \in Rooms, success \in BOOLEAN : TickerSaved(r, success)
    \/ \E r \in Rooms : TickerEmitted(r)

SpecTicker == Init /\ [][NextTicker]_vars

\* time passes and the ticker's thread, a daemon that sleeps a second between
\* its rounds, runs on
SpecTickerFair ==
    /\ SpecTicker
    /\ WF_vars(Tick)
    /\ WF_vars(\E r \in Rooms : Ticker(r))
    /\ WF_vars(\E r \in Rooms, success \in BOOLEAN : TickerSaved(r, success))
    /\ WF_vars(\E r \in Rooms : TickerEmitted(r))

\* The names of the seats: rooms created for either colour and joins that
\* carry a player name or a null playerName.
NextNames ==
    \/ Connect(MaxSids)
    \/ \E s \in Sids, r \in Rooms, name \in PlayerNames, color \in Colors :
          CreateRoom(s, r, name, FALSE, color)
    \/ \E s \in Sids, r \in Rooms, name \in PlayerNames \cup {None},
          spectate \in BOOLEAN : JoinRoom(s, r, name, spectate)
    \/ \E s \in Sids : Disconnect(s)

SpecNames == Init /\ [][NextNames]_vars

\* The bot's turns: one player against the bot, the bot_play threads that
\* take the lock, ask the engine and commit, the ticker, the grace timer and
\* a resignation.
NextBot ==
    \/ Tick
    \/ Connect(BotSids)
    \/ \E s \in Sids, r \in Rooms : CreateRoom(s, r, "A", TRUE, "white")
    \/ \E s \in Sids, r \in Rooms, d \in PlayMoves :
          MoveWithin(s, r, d, BotPlies, BotPending)
    \/ \E r \in Rooms : BotStart(r, BotPlies)
    \/ \E r \in Rooms, engine_ok \in BOOLEAN :
          \E best_move \in {<<>>} \cup {<<mv>> : mv \in PlayMoves} :
             BotCommit(r, best_move, engine_ok)
    \/ \E r \in Rooms : Ticker(r)
    \/ \E s \in Sids, r \in Rooms, color \in Colors : Resign(s, r, color)
    \/ \E s \in Sids : Disconnect(s)
    \/ \E r \in Rooms, color \in Colors : TimerFire(r, color)
    \/ \E r \in Rooms, who \in Callers, success \in BOOLEAN : SaveDone(r, who, success)

SpecBot == Init /\ [][NextBot]_vars

\* check_game_over on every position: the board of the game is drawn from the
\* positions, and check_game_over is applied to it.
InitRules ==
    /\ games = <<>>
    /\ sid_to_room = [s \in Sids |-> None]
    /\ nextSid = 1
    /\ live = {}
    /\ now = 0
    /\ timers = {}
    /\ botTasks = [r \in AllRooms |-> 0]
    /\ saving = [r \in AllRooms |-> [who \in Callers |-> "idle"]]
    /\ \E passed \in Positions, ply \in 0..RulesPlies :
          last = [op |-> "board",
                  res |-> [passed |-> passed, ply |-> ply,
                           winner |-> None, reason |-> None]]
    /\ matchmaking_queue = <<>>
    /\ found = {}
    /\ creating = [s \in Sids |-> <<>>]

CheckGameOver ==
    /\ last.op = "board"
    /\ LET over == game_over(last.res.passed, turn([ply |-> last.res.ply]))
       IN last' = [op |-> "check_game_over",
                   res |-> [last.res EXCEPT !.winner = over.winner,
                                            !.reason = over.reason]]
    /\ UNCHANGED <<games, sid_to_room, nextSid, live, now, timers, botTasks, saving,
                   matchmaking_queue, found, creating>>

NextRules == CheckGameOver

SpecRules == InitRules /\ [][NextRules]_vars

\* save_game_record and the engine return, and the thread that waits for
\* them runs on: the threads that hold a lock are scheduled fairly.
SpecBotFair ==
    /\ SpecBot
    /\ WF_vars(\E r \in Rooms, who \in Callers, success \in BOOLEAN :
                  SaveDone(r, who, success))
    /\ WF_vars(\E r \in Rooms, engine_ok \in BOOLEAN :
                  \E best_move \in {<<>>} \cup {<<mv>> : mv \in PlayMoves} :
                     BotCommit(r, best_move, engine_ok))
\* ------------------------------------------------------------------ claims
G(r) == games[r]

\* the game registered under r before and after a step is one and the same
\* finished or unfinished game: r is not deleted, and not replaced by create
kept(r) == has(r) /\ r \in DOMAIN games'

\* C1: once a game has a winner, no step changes its winner or its reason.
C1_ResultSetOnce ==
    [][\A r \in Rooms :
          (kept(r) /\ G(r).winner # None /\ games'[r].winner # None)
          => (games'[r].winner = G(r).winner /\ games'[r].reason = G(r).reason)]_vars

\* C2: once a game has a winner, no step changes its board, its move_history
\* or either clock.
C2_TerminalFrozen ==
    [][\A r \in Rooms :
          (kept(r) /\ G(r).winner # None /\ games'[r].winner # None)
          => /\ games'[r].board = G(r).board
             /\ games'[r].move_history = G(r).move_history
             /\ games'[r].whiteTime = G(r).whiteTime
             /\ games'[r].blackTime = G(r).blackTime]_vars

\* the time elapsed since lastUpdate uses up the clock of the side to move
flagged(g) ==
    now - g.lastUpdate >= (IF turn(g.board) = "white" THEN g.whiteTime ELSE g.blackTime)

\* C3: a move that reaches an active, undecided game whose side to move has
\* used up its clock makes the opponent win on time and is itself discarded,
\* legal or not: the board and move_history stay as they were.
C3_ClockPrecedence ==
    [][\A r \in Rooms :
          (last'.op = "move" /\ has(r) /\ G(r).isActive /\ G(r).winner = None
           /\ flagged(G(r))
           /\ \E s \in Sids, d \in MoveInputs : Move(s, r, d))
          => /\ games'[r].winner = other(turn(G(r).board))
             /\ games'[r].reason = "timeout"
             /\ games'[r].board = G(r).board
             /\ games'[r].move_history = G(r).move_history]_vars

\* a legal move was submitted too late: the move handler flagged the clock
C3_Witness ==
    /\ last = [op |-> "move", res |-> "timeout"]
    /\ \E r \in DOMAIN games :
          /\ G(r).reason = "timeout"
          /\ G(r).move_history = <<>>
          /\ legal_moves(G(r).board) # {}

\* C4: the step that gives a game its winner starts a save_game_record call
\* for that game.
C4_TerminalIsRecorded ==
    [][\A r \in Rooms :
          (kept(r) /\ G(r).winner = None /\ games'[r].winner # None)
          => games'[r].calls = G(r).calls + 1]_vars

\* C5: save_game_record commits at most once per game.
C5_RecordedOnce == \A r \in DOMAIN games : G(r).writes <= 1

\* C6: in an active, undecided game a move sent by the connection of the seat
\* that is not to move leaves the board and move_history unchanged.
C6_TurnEnforced ==
    [][\A r \in Rooms, s \in Sids, d \in MoveInputs :
          (has(r) /\ G(r).isActive /\ G(r).winner = None
           /\ s \in {G(r).white_sid, G(r).black_sid}
           /\ seat_of(G(r), s) # turn(G(r).board)
           /\ Move(s, r, d))
          => /\ games'[r].board = G(r).board
             /\ games'[r].move_history = G(r).move_history]_vars

\* C7: a chat, typing or move event of a connection that is in the room as a
\* spectator is rejected: nothing is broadcast and the game is unchanged.
C7_SpectatorsRejected ==
    [][\A r \in Rooms, s \in Sids, sender \in Senders, d \in MoveInputs :
          (has(r) /\ s \in G(r).spectators
           /\ s \notin {G(r).white_sid, G(r).black_sid}
           /\ (SendMessage(s, r, sender) \/ Typing(s, r, sender) \/ Move(s, r, d)))
          => /\ games' = games
             /\ last'.res \notin {"chat_message", "user_typing", "applied"}]_vars

\* C8: while the grace timer of a seat of an active, undecided game runs, a
\* join by a new connection under the seat's player name cancels the timer and
\* puts the connection in that seat.
C8_ReconnectCancels ==
    [][\A r \in Rooms, s \in Sids, color \in Colors :
          (has(r) /\ G(r).isActive /\ G(r).winner = None
           /\ timer_of(G(r), color)
           /\ [room |-> r, color |-> color] \in timers
           /\ s # sid_of(G(r), color)
           /\ JoinRoom(s, r, player_of(G(r), color), FALSE))
          => /\ ~timer_of(games'[r], color)
             /\ [room |-> r, color |-> color] \notin timers'
             /\ sid_of(games'[r], color) = s]_vars

\* C9: when the grace timer of a seat expires on an undecided game that still
\* holds the timer's handle, the opponent wins by abandonment and one
\* save_game_record call starts; an expiry on a decided game changes nothing;
\* and a game lost by abandonment has had exactly one save_game_record call.
C9_ForfeitFires ==
    /\ [](\A r \in DOMAIN games : G(r).reason = "abandonment" => G(r).calls = 1)
    /\ [][\A r \in Rooms, color \in Colors :
             (last'.op = "timer" /\ has(r) /\ TimerFire(r, color))
             => IF G(r).winner = None /\ timer_of(G(r), color)
                THEN /\ games'[r].winner = other(color)
                     /\ games'[r].reason = "abandonment"
                     /\ games'[r].calls = 1
                     /\ saving'[r]["timer"] = "db"
                ELSE games' = games]_vars

\* a grace timer expired and decided the game
C9_Witness ==
    /\ last.op = "timer" /\ last.res \in Colors
    /\ \E r \in DOMAIN games :
          /\ G(r).reason = "abandonment"
          /\ G(r).winner = other(last.res)
          /\ G(r).calls = 1

\* C10: no connection holds both seats of a game, and in every state a join by
\* a connection that holds a seat of an active game, whatever name and
\* spectate flag it sends, reports that seat and leaves the seats and the
\* spectators as they are.
C10_JoinIdempotent ==
    \A r \in DOMAIN games, s \in live :
       /\ ~(G(r).white_sid = s /\ G(r).black_sid = s)
       /\ (G(r).isActive /\ s \in {G(r).white_sid, G(r).black_sid})
          => \A name \in PlayerNames \cup {BotName}, spectate \in BOOLEAN :
                LET g2 == join_g(G(r), s, name, spectate)
                IN /\ join_reply(G(r), s, name, spectate) = seat_of(G(r), s)
                   /\ g2.white_sid = G(r).white_sid
                   /\ g2.black_sid = G(r).black_sid
                   /\ g2.spectators = G(r).spectators

\* a seated connection of an active game joined the room again
C10_Witness ==
    /\ last.op = "join" /\ last.res \in {"resid_white", "resid_black"}
    /\ \E r \in DOMAIN games, s \in live :
          /\ G(r).isActive
          /\ s \in {G(r).white_sid, G(r).black_sid}
          /\ sid_to_room[s] = r

\* the seat's player is known and its connection is gone
disconnected_seat(g, color) ==
    /\ player_of(g, color) # None
    /\ sid_of(g, color) = NoSid \/ sid_of(g, color) \notin live

\* C11: in every state, a join by a connection that holds no seat of the game,
\* under a name that is not the player of a seat whose connection is gone, is
\* resolved thus: with spectate set, or with both seats filled, the connection
\* becomes a spectator and the seats stay as they are; otherwise it gets the
\* first empty seat (white before black) under its name, and when the other
\* seat is filled too a game that was waiting and undecided becomes active,
\* with lastUpdate set to the current time and both clocks at the time control.
C11_JoinResolution ==
    \A r \in DOMAIN games, s \in live, name \in PlayerNames \cup {BotName},
       spectate \in BOOLEAN :
       LET g == G(r)
           g2 == join_g(g, s, name, spectate)
           reply == join_reply(g, s, name, spectate)
       IN (/\ s \notin {g.white_sid, g.black_sid}
           /\ ~\E c \in Colors : name = player_of(g, c) /\ disconnected_seat(g, c))
          => IF spectate \/ (g.white_player # None /\ g.black_player # None)
             THEN /\ reply = "spectator"
                  /\ s \in g2.spectators
                  /\ \A c \in Colors : /\ sid_of(g2, c) = sid_of(g, c)
                                       /\ player_of(g2, c) = player_of(g, c)
                  /\ g2.isActive = g.isActive
                  /\ g2.lastUpdate = g.lastUpdate
             ELSE LET c == IF g.white_player = None THEN "white" ELSE "black"
                  IN /\ reply = c
                     /\ sid_of(g2, c) = s
                     /\ player_of(g2, c) = name
                     /\ sid_of(g2, other(c)) = sid_of(g, other(c))
                     /\ player_of(g2, other(c)) = player_of(g, other(c))
                     /\ g2.spectators = g.spectators
                     /\ (player_of(g, other(c)) # None /\ ~g.isActive /\ g.winner = None)
                        => /\ g2.isActive
                           /\ g2.lastUpdate = now
                           /\ g2.whiteTime = g.timeControl
                           /\ g2.blackTime = g.timeControl

\* some time after the room was created a newcomer took the empty seat, and
\* the game started with full clocks
C11_Witness ==
    /\ last = [op |-> "join", res |-> "seat_black"]
    /\ now > 0
    /\ \E r \in DOMAIN games :
          /\ G(r).isActive /\ G(r).winner = None
          /\ G(r).black_sid \in live
          /\ G(r).lastUpdate = now
          /\ G(r).whiteTime = G(r).timeControl
          /\ G(r).blackTime = G(r).timeControl

\* the thread of connection s writes the dict of room r in this step
writes_room(s, r) == creating[s] # <<>> /\ creating[s][1].room = r /\ CreateWrite(s)

\* C12: a create that finds the room id registered with an undecided game
\* answers room_taken and changes neither the game nor the registry; a create
\* on the id of a decided game registers a new game in its initial state; and
\* no step that registers a game under an id replaces an undecided game.
C12_CreateOnOccupied ==
    [][\A r \in Rooms, s \in Sids :
          /\ (last'.op = "create" /\ create_taken(r)
              /\ \E is_bot \in BOOLEAN, color \in Colors :
                    CreateCheck(s, r, "A", is_bot, color))
             => /\ last'.res = "room_taken"
                /\ games' = games /\ sid_to_room' = sid_to_room
          /\ (has(r) /\ writes_room(s, r))
             => /\ G(r).winner # None
                /\ games'[r].winner = None /\ games'[r].move_history = <<>>
                /\ games'[r].board = NewBoard /\ games'[r].clients = {s}]_vars

\* C13: of the create threads that work on one room id, the one that writes
\* while an undecided game is registered under the id is told room_taken and
\* leaves that game in place.
C13_CreateRace ==
    [][\A r \in Rooms, s \in Sids :
          (last'.op = "create" /\ create_taken(r) /\ writes_room(s, r))
          => (last'.res = "room_taken" /\ games' = games)]_vars

\* the game registered under r leaves the registry in this step: its id is
\* deleted, or create registers another game under it
removed(r) ==
    /\ has(r)
    /\ \/ r \notin DOMAIN games'
       \/ /\ last'.op = "create" /\ last'.res = "room_created"
          /\ \E s \in Sids, name \in PlayerNames, is_bot \in BOOLEAN, color \in Colors :
                CreateRoom(s, r, name, is_bot, color)

\* C14: a game whose id is deleted has no client that is still connected; and
\* a game that leaves the registry, deleted or replaced, holds no disconnect
\* timer for either seat and no Timer thread of its room is pending.
C14_RemovedOnlyIdle ==
    [][\A r \in Rooms :
          /\ (has(r) /\ r \notin DOMAIN games') => G(r).clients \cap live' = {}
          /\ removed(r)
             => /\ ~G(r).white_disconnect_timer /\ ~G(r).black_disconnect_timer
                /\ \A color \in Colors : [room |-> r, color |-> color] \notin timers']_vars

\* C15: the two connections a matchmaking_found event pairs are distinct.
C15_NoSelfPairing == \A f \in found : f.white_sid # f.black_sid

\* a join_matchmaking found a match: two live connections, one room
C15_Witness ==
    /\ last = [op |-> "join_matchmaking", res |-> "found"]
    /\ \E f \in found : /\ f.room \in DOMAIN games
                         /\ f.white_sid # f.black_sid
                         /\ {f.white_sid, f.black_sid} \subseteq live

queued(s) == \E i \in 1..Len(matchmaking_queue) : matchmaking_queue[i].sid = s

\* C16: the queue never holds two entries of one connection, and a
\* join_matchmaking of a connection that has an entry in the queue answers
\* already_in_queue and changes neither the queue nor the registry.
C16_NoDuplicateEntry ==
    /\ [](\A i, j \in 1..Len(matchmaking_queue) :
             matchmaking_queue[i].sid = matchmaking_queue[j].sid => i = j)
    /\ [][\A s \in Sids :
             (last'.op = "join_matchmaking" /\ queued(s)
              /\ \E name \in PlayerNames, time_control \in MatchTimes,
                    white_first \in BOOLEAN :
                    JoinMatchmaking(s, name, time_control, white_first))
             => /\ last'.res = "already_in_queue"
                /\ matchmaking_queue' = matchmaking_queue
                /\ games' = games /\ found' = found]_vars

\* a queued connection asked again and was turned away
C16_Witness ==
    /\ last = [op |-> "join_matchmaking", res |-> "already_in_queue"]
    /\ Len(matchmaking_queue) = 1
    /\ matchmaking_queue[1].sid \in live

\* C17: when the queue holds the entry of one other connection and nothing
\* else, a join_matchmaking with that entry's time control registers exactly
\* one new game, with both clocks at that time control, emits
\* matchmaking_found with the new room id for the two connections, and leaves
\* the queue empty.
C17_PairCreatesOneGame ==
    [][\A s \in Sids, time_control \in MatchTimes :
          (/\ last'.op = "join_matchmaking"
           /\ Len(matchmaking_queue) = 1
           /\ matchmaking_queue[1].sid # s
           /\ matchmaking_queue[1].timeControl = time_control
           /\ \E name \in PlayerNames, white_first \in BOOLEAN :
                 JoinMatchmaking(s, name, time_control, white_first))
          => /\ matchmaking_queue' = <<>>
             /\ \E room \in AllRooms \ DOMAIN games :
                   /\ DOMAIN games' = DOMAIN games \cup {room}
                   /\ \A r \in DOMAIN games : games'[r] = games[r]
                   /\ games'[room].whiteTime = time_control
                   /\ games'[room].blackTime = time_control
                   /\ games'[room].winner = None
                   /\ \E f \in found' :
                         /\ found' = {f}
                         /\ f.room = room
                         /\ {f.white_sid, f.black_sid} = {s, matchmaking_queue[1].sid}]_vars

\* two connections asked for the same time control and got one game
C17_Witness ==
    /\ last = [op |-> "join_matchmaking", res |-> "found"]
    /\ matchmaking_queue = <<>>
    /\ \E f \in found :
          /\ f.room \in DOMAIN games
          /\ G(f.room).whiteTime = G(f.room).blackTime
          /\ G(f.room).whiteTime \in MatchTimes
          /\ G(f.room).clients = {}

\* C18: a resign sent by the connection of a seat of an active, undecided
\* game makes the other seat win with reason "resign" and starts one
\* save_game_record call; a resign on a decided game changes nothing.
C18_ResignResult ==
    [][\A r \in Rooms, s \in Sids, color \in Colors :
          (last'.op = "resign" /\ has(r) /\ Resign(s, r, color))
          => IF G(r).winner # None THEN games' = games
             ELSE (G(r).isActive /\ s \in {G(r).white_sid, G(r).black_sid})
                  => /\ games'[r].winner = other(seat_of(G(r), s))
                     /\ games'[r].reason = "resign"
                     /\ games'[r].calls = G(r).calls + 1]_vars

\* the request_rematch of connection s on room r is answered in this step
requests(s, r) == last'.op = "request_rematch" /\ has(r) /\ RequestRematch(s, r)

\* the rooms registered in this step
spawned == DOMAIN games' \ DOMAIN games

\* C19: the game a rematch of a decided game registers has the two players of
\* the old game and starts both clocks at the time control the old game was
\* created with.
C19_RematchKeepsTimeControl ==
    [][\A r \in Rooms, s \in Sids :
          (requests(s, r) /\ G(r).winner # None)
          => \A n \in spawned :
                /\ {games'[n].white_player, games'[n].black_player} =
                      {G(r).white_player, G(r).black_player}
                /\ games'[n].whiteTime = G(r).timeControl
                /\ games'[n].blackTime = G(r).timeControl]_vars

\* C20: a request_rematch on a game of two players registers a new game only
\* when the connections of both seats have a request recorded since the last
\* decline; a request of the player's connection on a bot game registers one
\* at once; and a decline_rematch of a seat's connection leaves no recorded
\* request.
C20_RematchNeedsBothVotes ==
    [][\A r \in Rooms, s \in Sids :
          /\ requests(s, r)
             => IF G(r).game_mode = "bot"
                THEN s \in {G(r).white_sid, G(r).black_sid}
                     => (spawned # {} /\ last'.res = "rematch_started")
                ELSE spawned # {}
                     => /\ NoSid \notin {G(r).white_sid, G(r).black_sid}
                        /\ {G(r).white_sid, G(r).black_sid} \subseteq games'[r].voters
                        /\ last'.res = "rematch_started"
          /\ (last'.op = "decline_rematch" /\ has(r)
              /\ s \in {G(r).white_sid, G(r).black_sid} /\ DeclineRematch(s, r))
             => games'[r].rematch_requests = {}]_vars

\* both players of a game asked for a rematch and the new game is registered
C20_Witness ==
    /\ last = [op |-> "request_rematch", res |-> "rematch_started"]
    /\ \E r \in Rooms, n \in NewRooms :
          /\ has(r) /\ has(n)
          /\ G(r).game_mode = "friend"
          /\ G(r).voters = {G(r).white_sid, G(r).black_sid}
          /\ G(n).game_mode = "friend"
          /\ G(n).clients = G(r).voters

\* C21: a respond_draw or a request_rematch of a connection that holds neither
\* seat of the game changes nothing: the games and the room of every
\* connection stay as they are.
C21_NonSeatRejected ==
    [][\A r \in Rooms, s \in Sids :
          (/\ has(r) /\ s \notin {G(r).white_sid, G(r).black_sid}
           /\ \/ last'.op = "respond_draw"
                 /\ \E accept \in BOOLEAN : RespondDraw(s, r, accept)
              \/ last'.op = "request_rematch" /\ RequestRematch(s, r))
          => (games' = games /\ sid_to_room' = sid_to_room)]_vars

\* the fields of a game that only a holder of its lock may write
guarded(g) ==
    <<g.board, g.move_history, g.whiteTime, g.blackTime, g.lastUpdate, g.isActive,
      g.winner, g.reason, g.white_sid, g.black_sid, g.white_player, g.black_player>>

\* C22: while a thread holds the lock of a game (it is inside save_game_record
\* for it), no step of another thread changes the game's board, clocks,
\* seats, isActive flag or result.
C22_MutationsUnderLock ==
    [][\A r \in Rooms :
          (has(r) /\ locked(r) /\ ~removed(r)) => guarded(games'[r]) = guarded(G(r))]_vars

\* C25: a seat's disconnect timer is recorded only while the seat's connection
\* is gone, the game is active and it has no result.
C25_TimerOnlyWhileAway ==
    \A r \in Rooms, color \in Colors :
       (has(r) /\ timer_of(G(r), color))
       => /\ sid_of(G(r), color) \notin live
          /\ G(r).isActive
          /\ G(r).winner = None

\* the phase of a game: Forming until both seats are filled, Active until it
\* has a result, Terminal from then on
phase(g) ==
    IF g.winner # None THEN "Terminal" ELSE IF g.isActive THEN "Active" ELSE "Forming"

\* C26: the game registered under a room id never goes back from Active to
\* Forming or out of Terminal, gets its result only while it is active, and
\* is not activated once it has a result.
C26_PhaseForward ==
    [][\A r \in Rooms :
          (has(r) /\ ~removed(r))
          => /\ phase(G(r)) = "Active" => phase(games'[r]) # "Forming"
             /\ phase(G(r)) = "Terminal" => phase(games'[r]) = "Terminal"
             /\ (G(r).winner = None /\ games'[r].winner # None) => G(r).isActive
             /\ G(r).winner # None => games'[r].isActive = G(r).isActive]_vars

\* C27: while the bot_play thread of a game computes its move, the lock of
\* the game is free: the ticker can take it for every active game without a
\* result.
C27_BotThinksUnlocked ==
    \A r \in Rooms :
       (has(r) /\ saving[r]["bot"] = "engine")
       => /\ ~locked(r)
          /\ (G(r).isActive /\ G(r).winner = None) => ENABLED Ticker(r)

\* the seat of the automated opponent
bot_seat(g) == IF g.white_player = BotName THEN "white" ELSE "black"

\* C28: move schedules a bot_play task only for a game without a result whose
\* side to move is the bot's seat, and a bot_play thread only pushes a move
\* when its seat is to move.
C28_BotPlaysOwnSeat ==
    [][\A r \in Rooms :
          (has(r) /\ ~removed(r) /\ G(r).bot)
          => /\ botTasks'[r] > botTasks[r]
                => /\ games'[r].winner = None
                   /\ turn(games'[r].board) = bot_seat(games'[r])
             /\ (last'.op = "bot" /\ games'[r].board # G(r).board)
                => turn(G(r).board) = bot_seat(G(r))]_vars

\* C29: a bot_play thread whose engine is missing or fails still pushes
\* exactly one move, a legal move of the position it found, appends its entry
\* to move_history and leaves the lock.
C29_FallbackPlaysLegalMove ==
    [][\A r \in Rooms :
          (/\ has(r)
           /\ \E best_move \in {<<>>} \cup {<<mv>> : mv \in MoveInputs} :
                 BotCommit(r, best_move, FALSE))
          => /\ \E mv \in legal_moves(G(r).board) :
                  /\ games'[r].board = push(G(r).board, mv)
                  /\ games'[r].move_history =
                         Append(G(r).move_history, entry(G(r), mv, push(G(r).board, mv)))
             /\ saving'[r]["bot"] # "engine"
             /\ last'.res = "fallback"]_vars

\* the bot has played a fallback move after the player's move
C29_Witness ==
    /\ last = [op |-> "bot", res |-> "fallback"]
    /\ \E r \in Rooms : has(r) /\ Len(G(r).move_history) = 2 /\ G(r).board.ply = 2

\* C30: when save_game_record fails (returns False or raises), the game keeps
\* its winner and its reason and stays decided, the handler goes on to its
\* end, and game_update goes to every attached connection.
C30_SaveFailureKeepsResult ==
    [][\A r \in Rooms, who \in Callers :
          (has(r) /\ SaveDone(r, who, FALSE))
          => /\ games'[r].winner = G(r).winner
             /\ games'[r].reason = G(r).reason
             /\ games'[r].winner # None
             /\ saving'[r][who] = "idle"
             /\ game_update(games'[r], FALSE) = games'[r].clients]_vars

\* a decided game whose only save_game_record call has failed, with a
\* connection attached that gets the final game_update
C30_Witness ==
    \E r \in Rooms :
       /\ has(r) /\ G(r).winner # None /\ ~G(r).saved
       /\ G(r).calls = 1 /\ G(r).writes = 0
       /\ \A who \in Callers : saving[r][who] = "idle"
       /\ G(r).clients # {}

\* the threads that hold the lock of the game registered under r
holders(r) == {who \in LockHolders : saving[r][who] \in {"db", "engine"}}

\* the thread that holds the lock of r waits for nothing but the return of
\* save_game_record or of the engine: its next step is enabled
runs_on(r, who) ==
    IF saving[r][who] = "engine"
    THEN ENABLED (\E engine_ok \in BOOLEAN, mv \in PlayMoves : BotCommit(r, <<mv>>, engine_ok))
    ELSE ENABLED (\E success \in BOOLEAN : SaveDone(r, who, success))

C24_GameOverMapping ==
    last.op = "check_game_over"
    => LET x == last.res
           to_move == IF x.ply % 2 = 0 THEN "white" ELSE "black"
       IN /\ "checkmate" \in x.passed
                => x.winner = other(to_move) /\ x.reason = "checkmate"
          /\ ("checkmate" \notin x.passed /\ x.passed # {})
                => x.winner = "draw" /\ x.reason \in x.passed
          /\ x.passed = {} => x.winner = None /\ x.reason = None

\* a checkmate given on the move that completes the fifty moves, black to move
C24_Witness ==
    /\ last.op = "check_game_over"
    /\ last.res.passed = {"checkmate", "fifty_moves"}
    /\ last.res.ply = 1
    /\ last.res.winner = "white"

\* the clock of a seat
time_of(g, color) == IF color = "white" THEN g.whiteTime ELSE g.blackTime

\* C31: a step takes time off the clock of a seat only in an active game
\* without a result whose side to move is that seat, and never more than the
\* time that has passed since the last move was pushed (since the seat's turn
\* began).
C31_ClockChargesOwnTurn ==
    [][\A r \in Rooms, color \in Colors :
          (has(r) /\ ~removed(r) /\ time_of(games'[r], color) # time_of(G(r), color))
          => /\ G(r).isActive /\ G(r).winner = None
             /\ turn(G(r).board) = color
             /\ time_of(games'[r], color) < time_of(G(r), color)
             /\ time_of(G(r), color) - time_of(games'[r], color) <= now - G(r).moved]_vars

\* C32: a join_matchmaking of a connection that is not queued, when another
\* connection waits with its time control, pairs it with the earliest such
\* entry, removes that entry and leaves the others in their order.
C32_FirstComeFirstServed ==
    [][\A s \in Sids, time_control \in MatchTimes :
          LET q == matchmaking_queue
              fit(i) == q[i].timeControl = time_control /\ q[i].sid # s
          IN (/\ last'.op = "join_matchmaking"
              /\ ~queued(s)
              /\ \E i \in 1..Len(q) : fit(i)
              /\ \E name \in PlayerNames, white_first \in BOOLEAN :
                    JoinMatchmaking(s, name, time_control, white_first))
             => \E i \in 1..Len(q) :
                   /\ fit(i)
                   /\ \A j \in 1..(i - 1) : ~fit(j)
                   /\ matchmaking_queue' =
                         [k \in 1..(Len(q) - 1) |-> IF k < i THEN q[k] ELSE q[k + 1]]
                   /\ \E f \in found' : {f.white_sid, f.black_sid} = {s, q[i].sid}]_vars

\* a third connection was paired with the second entry of the queue; the
\* first entry, of another time control, still waits
C32_Witness ==
    /\ last = [op |-> "join_matchmaking", res |-> "found"]
    /\ Len(matchmaking_queue) = 1
    /\ \E f \in found :
          /\ matchmaking_queue[1].sid \notin {f.white_sid, f.black_sid}
          /\ matchmaking_queue[1].sid < f.white_sid
          /\ matchmaking_queue[1].sid < f.black_sid
          /\ G(f.room).timeControl # matchmaking_queue[1].timeControl

\* C37: no two entries of the queue have the same time control.
C37_OneEntryPerTimeControl ==
    \A i, j \in 1..Len(matchmaking_queue) :
       matchmaking_queue[i].timeControl = matchmaking_queue[j].timeControl => i = j

\* two connections wait, each with its own time control
C37_Witness ==
    /\ Len(matchmaking_queue) = 2
    /\ matchmaking_queue[1].timeControl # matchmaking_queue[2].timeControl
    /\ last = [op |-> "join_matchmaking", res |-> "searching"]

\* C33: in a game against the bot, no connection is ever bound to the bot's
\* seat.
C33_BotSeatStaysBot ==
    \A r \in Rooms : (has(r) /\ G(r).bot) => sid_of(G(r), bot_seat(G(r))) = NoSid

\* the rooms whose game has the connection among its clients
attached(s) == {r \in DOMAIN games : s \in games[r].clients}

\* C34: a live connection is among the clients of at most one game, and that
\* game is the one sid_to_room gives for it.
C34_OneRoomPerConnection ==
    \A s \in live : attached(s) \subseteq {sid_to_room[s]}

\* C35: a request_rematch on a game without a result registers no game and
\* moves no connection to another room.
C35_RematchOnlyWhenDecided ==
    [][\A r \in Rooms, s \in Sids :
          (/\ has(r) /\ G(r).winner = None
           /\ last'.op = "request_rematch"
           /\ RequestRematch(s, r))
          => /\ DOMAIN games' = DOMAIN games
             /\ sid_to_room' = sid_to_room]_vars

\* C40: once both seats of a finished game between two players have voted and
\* the rematch is registered, a further request_rematch on that game
\* registers no game.
C40_OneRematch ==
    [][\A r \in Rooms, s \in Sids :
          (/\ has(r) /\ G(r).game_mode # "bot" /\ G(r).winner # None
           /\ Cardinality(G(r).rematch_requests) = 2
           /\ last'.op = "request_rematch"
           /\ RequestRematchIn(s, r, MoreRooms))
          => DOMAIN games' = DOMAIN games]_vars

\* the game in r is active, has no result, and the clock of its side to move
\* runs out within the time the model lets pass
runs_out(r) ==
    /\ has(r) /\ G(r).isActive /\ G(r).winner = None
    /\ G(r).lastUpdate + time_of(G(r), turn(G(r).board)) <= MaxNow

\* C36: while the ticker's thread walks the clients of a game it has flagged,
\* no step of another thread changes that set or takes the game out of the
\* registry (either one raises in the ticker's loop and ends its thread);
\* and an active game without a result in which nobody moves is in the end
\* decided by timeout for the opponent of the side to move, or gone.
C36_TickerKeepsServing ==
    /\ [][\A r \in Rooms :
             (has(r) /\ saving[r]["ticker"] = "emit")
             => /\ r \in DOMAIN games'
                /\ games'[r].clients = G(r).clients]_vars
    /\ \A r \in Rooms :
          runs_out(r) ~> (~has(r) \/ G(r).reason = "timeout")

\* C38: the move_history of every game has one entry per move pushed on its
\* board; a move or bot_play step that pushes a move appends exactly one
\* entry, and one that pushes none leaves move_history as it is.
C38_HistoryInStep ==
    /\ [](\A r \in Rooms : has(r) => Len(G(r).move_history) = G(r).board.ply)
    /\ [][\A r \in Rooms :
             (has(r) /\ ~removed(r) /\ last'.op \in {"move", "bot"})
             => IF games'[r].board # G(r).board
                THEN /\ games'[r].board.ply = G(r).board.ply + 1
                     /\ Len(games'[r].move_history) = Len(G(r).move_history) + 1
                     /\ games'[r].move_history[Len(games'[r].move_history)].fen
                           = games'[r].board
                ELSE games'[r].move_history = G(r).move_history]_vars

\* a move of the player and the bot's answer are both in move_history, and a
\* move on the decided game was turned away
C38_Witness ==
    \E r \in Rooms :
       /\ has(r) /\ Len(G(r).move_history) = 2 /\ G(r).board.ply = 2
       /\ G(r).winner # None
       /\ last.op = "move" /\ last.res # "applied"

\* C39: every game whose isActive flag is set has a player name on both
\* seats.
C39_ActiveHasBothSeats ==
    \A r \in DOMAIN games :
       games[r].isActive => games[r].white_player # None /\ games[r].black_player # None
====
